---- MODULE Spec2Model ----
(***************************************************************************)
(* Model of drive_export: the Row Synchronizer (task.process, task.update, *)
(* task.fetch in src/main.go) driven by the Export Orchestrator, and the   *)
(* Catalog Target (htmlCatalogTarget in src/target.go).                    *)
(*                                                                         *)
(* Spec        : successive runs fetch -> process -> upload of one task.   *)
(* SpecCatalog : one catalog directory and one task directory, the Catalog *)
(*               Target's Insert executed step by step, the Telegram       *)
(*               Target's Insert, process crashes and restarts.            *)
(* SpecShared  : two Catalog Targets of one item on one catalog directory, *)
(*               their Inserts executed step by step, one after another.   *)
(* SpecBot     : the Bot Poller (telegramListenBot), update by update.     *)
(* SpecExport  : one batch of the Export Orchestrator over its items.      *)
(***************************************************************************)
EXTENDS Integers, Sequences, FiniteSets, TLC

VARIABLES
    remote,      \* Object Store copy of the spreadsheet: sequence of rows, row 1 = header
    source,      \* the fetched file task.source (<<>> = not fetched)
    table,       \* the opened excelize file f, mutated by SetCellValue
    result,      \* the file task.result written by SaveAs (<<>> = never written)
    pc,          \* position of the run: idle, fetched, rows, returned, uploaded
    run,         \* number of runs ended so far
    i,           \* process: physical number of the last row read
    total,       \* process: counter total
    done,        \* process: counter done
    fail,        \* process: counter fail
    updated,     \* task.updated
    perr,        \* the error process returned ("" = nil)
    calls,       \* Target.Insert calls of this run: {[row, target, ok]}
    ncalls,      \* number of Target.Insert calls of this run
    uploads,     \* number of fs.Update calls that replaced the remote object in this run
    failedBefore,\* pairs <<row, target>> whose Insert failed in an earlier run
    okBefore,    \* pairs <<row, target>> whose Insert succeeded in an earlier run
    skipped,     \* process: the physical rows whose read failed in this run
    faults       \* failures so far (fetch, row read, Insert, save, upload)

syncVars == <<remote, source, table, result, pc, run, i, total, done, fail,
              updated, perr, calls, ncalls, uploads, failedBefore, okBefore, skipped,
              faults>>

VARIABLES
    catalogDir,   \* item directories of the catalog directory: id -> [page, asset, copied]
    catalogIndex, \* content of the catalog index file on disk (<<>> = no file)
    tmpIndex,     \* content of the temp index file in the task directory (<<>> = no file)
    cache,        \* the Asset Cache of the task directory: asset name -> state of its file
    indexBuf,     \* ct.indexBuf
    lastId,       \* ct.lastId
    cpc,          \* down (no target instance), ready, or the position inside Insert
    cur,          \* the Insert in progress: [id, title, audio, cached] and the row
                  \* maps: maps (by reference), row (Insert's row), arg (the row passed)
    ret,          \* what the last Insert returned: [kind, id, created, stage, kept]
    preIndex,     \* the catalog index file when the last Insert was called
    startDir,     \* the ids in the catalog directory when the instance was constructed
    startIndex,   \* the catalog index file when the instance was constructed
    okItems,      \* the successful Inserts of the instance, in order: [id, title]
    ninserts,     \* Insert calls so far
    nrestarts,    \* process crashes so far
    creates,      \* asset name -> exclusive creates of its cache file that succeeded
    assetLog,     \* the asset handling of the last Insert: [name, present, lookup, created, from]
    preDirs,      \* the item directories of the catalog directory when the last Insert was called
    ctName,       \* ct.name of the target instance
    twin          \* the other Catalog Target of the item on the same catalog
                  \* directory: [name, indexBuf, lastId, tmpIndex]

catVars == <<catalogDir, catalogIndex, tmpIndex, cache, indexBuf, lastId, cpc, cur, ret,
             preIndex, startDir, startIndex, okItems, ninserts, nrestarts, creates, assetLog,
             preDirs, ctName, twin>>

VARIABLES
    botMaxErrors, \* cfg.BotMaxErrors
    offset,       \* telegramListenBot: offset
    errnum,       \* telegramListenBot: errnum
    bpc,          \* off, poll, handle (inside the loop over the updates), sync (before
                  \* f), report (after f), sleep, stopped
    updates,      \* the updates telegramGetUpdates returned in this cycle
    uk,           \* number of updates of this cycle handled so far
    reqs,         \* the chats that requested a run in this cycle
    pollLog,      \* the polls so far: TRUE = the poll succeeded
    seen,         \* the update ids received so far
    retErr,       \* the error telegramListenBot returned ("" = none)
    syncs,        \* number of calls of f so far
    auth,         \* this cycle: chat -> number of its authorized updates in the response
    notices,      \* this cycle: chat -> "starting sync..." messages sent to it
    reports,      \* this cycle: chat -> reports sent to it
    runs,         \* this cycle: calls of f
    runRes,       \* this cycle: what f returned, [results, err]
    report        \* this cycle: the lines of the report

botVars == <<botMaxErrors, offset, errnum, bpc, updates, uk, reqs, pollLog, seen, retErr, syncs,
             auth, notices, reports, runs, runRes, report>>

VARIABLES
    tasks,        \* exp.tasks: the names of the items in the batch
    sheets,       \* the spreadsheet of each configured item in the Object Store
    phase,        \* off, fetch, process, upload, done, or panic
    visited,      \* the items the loop of the current phase has visited
    fetched,      \* the items whose fetch succeeded
    processed,    \* item -> what task.process computed for it
    uploaded,     \* the items whose result replaced the Object Store copy
    results       \* the slice export.process builds

expVars == <<tasks, sheets, phase, visited, fetched, processed, uploaded, results>>

vars == <<syncVars, catVars, botVars, expVars>>

----------------------------------------------------------------------------
(* Bounds *)

MaxRows == 2        \* data rows of the sheet
MaxRuns == 2        \* runs of fetch/process/upload
MaxOldId == 5       \* largest item id of the catalog the first instance starts on
MaxInserts == 2     \* Insert calls in one behaviour of the Catalog Target
MaxRestarts == 1    \* process crashes in one behaviour of the Catalog Target
MaxFaults == 1      \* failures (fetch, row read, Insert, save, upload) in one behaviour
MaxPolls == 3       \* polls of the Messaging Gateway in one behaviour
MaxBatch == 2       \* updates in one response of the Messaging Gateway
MaxUpdateId == 3    \* largest update id the Messaging Gateway sends
MaxErrorsBound == 1 \* largest configured BotMaxErrors
MaxTasks == 2       \* configured items of the batch

----------------------------------------------------------------------------
(* Targets and the reserved columns (src/target.go) *)

T1 == "telegram_x"
T2 == "html_catalog_y"
TargetIDs == {T1, T2}

targetStatusFieldName(t) == t \o "_status"
targetRecordIdFieldName(t) == t \o "_record_id"

NoFile == <<>>

----------------------------------------------------------------------------
(* The sheets the runs start from *)

Reserved(t) == <<targetStatusFieldName(t), targetRecordIdFieldName(t)>>

Pad(n) == [k \in 1..n |-> "note"]

\* Numbers of plain columns between the title and the columns of T2: the
\* status column of T2 is then the 0-based column 3, 26 or 32.
PadWidths == {0, 23, 29}

HeaderRegular(p) == Reserved(T1) \o <<"title">> \o Pad(p) \o Reserved(T2)

\* the record-id column of T2 is missing
HeaderMissing == <<"title">> \o Reserved(T1) \o <<targetStatusFieldName(T2)>>

\* the status column of T1 is present twice
HeaderDup == <<targetStatusFieldName(T1), "title">> \o Reserved(T1) \o Reserved(T2)

Headers == {HeaderRegular(p) : p \in PadWidths} \cup {HeaderMissing, HeaderDup}

\* What a (row, target) pair holds when the first run starts.
Classes == {"insert", "update", "settled"}

StatusOf(c) == IF c = "settled" THEN "429: rate limited" ELSE ""

RecIdOf(c) == IF c = "update" THEN "17" ELSE ""

BlankRow == [t \in TargetIDs |-> "blank"]

\* The pending-update case is started on T1 only.
RowKinds ==
    {cls \in [TargetIDs -> Classes] : cls[T2] # "update"} \cup {BlankRow}

CellFor(f, cls) ==
    IF f = "title" THEN "T"
    ELSE IF \E t \in TargetIDs : f = targetStatusFieldName(t)
         THEN StatusOf(cls[CHOOSE t \in TargetIDs : f = targetStatusFieldName(t)])
    ELSE IF \E t \in TargetIDs : f = targetRecordIdFieldName(t)
         THEN RecIdOf(cls[CHOOSE t \in TargetIDs : f = targetRecordIdFieldName(t)])
    ELSE ""

FullRow(h, cls) ==
    IF cls = BlankRow THEN <<>> ELSE [k \in 1..Len(h) |-> CellFor(h[k], cls)]

Sheets ==
    UNION {{<<h>> \o [k \in 1..n |-> FullRow(h, kinds[k])] : kinds \in [1..n -> RowKinds]}
           : h \in Headers, n \in 0..MaxRows}

Max(S) == CHOOSE x \in S : \A y \in S : y <= x

----------------------------------------------------------------------------
(* Tabular Store: rows.Columns() and SetCellValue of excelize, as used by   *)
(* task.fetch and task.process                                             *)

\* rows.Columns() returns a row up to its last stored cell; the export stores
\* no trailing empty cells.
RECURSIVE Trim(_)
Trim(row) ==
    IF Len(row) = 0 THEN <<>>
    ELSE IF row[Len(row)] = "" THEN Trim(SubSeq(row, 1, Len(row) - 1))
    ELSE row

\* exportDriveFile: the remote sheet exported to the local xlsx file
Export(sheet) == [k \in 1..Len(sheet) |-> IF k = 1 THEN sheet[k] ELSE Trim(sheet[k])]

\* columnLetter: string([]byte{byte('A' + idx)}), as the byte it holds
columnLetter(idx) == (65 + idx) % 256

\* The 0-based column a one-letter column name addresses (column names are
\* case-insensitive), -1 when the name is no column name.
CellColumn(letter) ==
    IF letter >= 65 /\ letter <= 90 THEN letter - 65
    ELSE IF letter >= 97 /\ letter <= 122 THEN letter - 97
    ELSE -1

PutCell(row, col, v) ==
    [k \in 1..(IF Len(row) > col THEN Len(row) ELSE col + 1) |->
        IF k = col + 1 THEN v ELSE IF k <= Len(row) THEN row[k] ELSE ""]

\* f.SetCellValue(sheet, letter + strconv.Itoa(n), v)
SetCellValue(tbl, letter, n, v) ==
    IF CellColumn(letter) = -1
    THEN [table |-> tbl, err |-> "invalid cell name", col |-> -1]
    ELSE [table |-> [tbl EXCEPT ![n] = PutCell(tbl[n], CellColumn(letter), v)],
          err |-> "", col |-> CellColumn(letter)]

----------------------------------------------------------------------------
(* task.process: header parsing and row classification *)

ColumnsOf(fields, name) == {k \in 1..Len(fields) : fields[k] = name}

\* statusColumns / recordIdColumns: target id -> 0-based column, the last
\* matching column when a name occurs more than once
statusColumns(fields) ==
    [t \in {u \in TargetIDs : ColumnsOf(fields, targetStatusFieldName(u)) # {}} |->
        Max(ColumnsOf(fields, targetStatusFieldName(t))) - 1]

recordIdColumns(fields) ==
    [t \in {u \in TargetIDs : ColumnsOf(fields, targetRecordIdFieldName(u)) # {}} |->
        Max(ColumnsOf(fields, targetRecordIdFieldName(t))) - 1]

\* the error of the header validation, "" when the header is accepted
HeaderError(fields) ==
    IF Cardinality(DOMAIN statusColumns(fields)) # Cardinality(TargetIDs)
    THEN "invalid source: invalid status columns number"
    ELSE IF Cardinality(DOMAIN recordIdColumns(fields)) # Cardinality(TargetIDs)
    THEN "invalid source: invalid record id columns number"
    ELSE ""

\* if len(row) > idx { v = row[idx] }
CellAt(row, idx) == IF Len(row) > idx THEN row[idx + 1] ELSE ""

RowStatus(fields, row, t) == CellAt(row, statusColumns(fields)[t])

RowRecordId(fields, row, t) == CellAt(row, recordIdColumns(fields)[t])

\* C8 mutant: the status column is not consulted
insertTargetsAnyStatus(fields, row) ==
    {t \in TargetIDs : RowRecordId(fields, row, t) = ""}

insertTargets(fields, row) ==
    {t \in TargetIDs : RowStatus(fields, row, t) = "" /\ RowRecordId(fields, row, t) = ""}

updateTargets(fields, row) ==
    {t \in TargetIDs : RowStatus(fields, row, t) = "" /\ RowRecordId(fields, row, t) # ""}

\* Go ranges over the map task.targets in an unspecified order
Orders(S) ==
    {s \in [1..Cardinality(S) -> S] : \A a, b \in 1..Cardinality(S) : a # b => s[a] # s[b]}

----------------------------------------------------------------------------
(* Target.Insert as the Row Synchronizer sees it: a record id or an error *)

Outcomes == {"ok", "fail"}

TargetInsert(t, outcome) ==
    IF outcome = "ok"
    THEN [id |-> IF t = T1 THEN "501" ELSE "1", err |-> ""]
    ELSE [id |-> "", err |-> IF t = T1 THEN "telegram request error 400: bad request"
                                        ELSE "invalid row: no text"]

setStatus(tbl, fields, t, n, status) ==
    SetCellValue(tbl, columnLetter(statusColumns(fields)[t]), n, status)

setRecordId(tbl, fields, t, n, id) ==
    SetCellValue(tbl, columnLetter(recordIdColumns(fields)[t]), n, id)

\* One pass of "for _, t := range insertTargets" over the targets ts of row
\* n; st = [table, calls, ncalls, success, err], err # "" is the early return.
InsertStep(t, n, fields, out, st) ==
    LET res == TargetInsert(t, out[t])
        status == IF res.err # "" THEN res.err ELSE "ok"
        success == st.success /\ res.err = ""
        cs == st.calls \cup {[row |-> n, target |-> t, ok |-> res.err = ""]}
        s1 == setStatus(st.table, fields, t, n, status)
        s2 == setRecordId(s1.table, fields, t, n, res.id)
        called == [st EXCEPT !.calls = cs, !.ncalls = @ + 1, !.success = success]
    IN  IF s1.err # ""
        THEN [called EXCEPT !.err = s1.err]
        ELSE IF status # "ok"
        THEN [called EXCEPT !.table = s1.table]
        ELSE IF s2.err # ""
        THEN [called EXCEPT !.table = s1.table, !.err = s2.err]
        ELSE [called EXCEPT !.table = s2.table]

RECURSIVE InsertLoop(_, _, _, _, _)
InsertLoop(ts, n, fields, out, st) ==
    IF Len(ts) = 0 \/ st.err # "" THEN st
    ELSE InsertLoop(Tail(ts), n, fields, out, InsertStep(Head(ts), n, fields, out, st))

----------------------------------------------------------------------------
(* Bot Poller: telegramListenBot and telegramGetUpdates (src/unnamed/part_001) *)

\* startTime := time.Now().Unix()
StartTime == 2

\* cfg.BotUsers
BotUsers == {7}

\* cfg.BotTriggerMessage
BotTriggerMessage == "sync"

\* The messages the Messaging Gateway delivers: sent before or after the
\* start, by an allowed user or a stranger, with the trigger phrase or not
Messages ==
    {[date |-> StartTime - 1, from |-> 7, text |-> "sync", chat |-> 100],
     [date |-> StartTime,     from |-> 7, text |-> "sync", chat |-> 100],
     [date |-> StartTime + 1, from |-> 7, text |-> "sync", chat |-> 200],
     [date |-> StartTime + 1, from |-> 9, text |-> "sync", chat |-> 200],
     [date |-> StartTime + 1, from |-> 7, text |-> "sync ", chat |-> 100]}

\* A decoded telegramUpdate; update_id 0 is an object without update id
telegramUpdate(id, m) == [id |-> id, date |-> m.date, from |-> m.from, text |-> m.text, chat |-> m.chat]

\* getUpdates?offset=<offset+1>: the updates with an id of at least offset+1,
\* in any order, each id once
Responses(off) ==
    LET ids == {0} \cup ((off + 1)..MaxUpdateId)
        us == {telegramUpdate(id, m) : id \in ids, m \in Messages}
    IN  UNION {{r \in [1..n -> us] : \A a, b \in 1..n : a # b => r[a].id # r[b].id}
               : n \in 0..MaxBatch}

\* C11 mutant: the date of the update is not looked at
StaleNever(u) == FALSE

\* u.Message.Date < startTime
Stale(u) == u.date < StartTime

\* C13 mutant: the loop ends when the count reaches the maximum
ReachesMaxErrors(n, max) == n >= max

\* errnum > cfg.BotMaxErrors
TooManyErrors(n, max) == n > max

\* C22 mutant: the text of the update is not compared with the trigger phrase
BadMessageNever(u) == FALSE

\* u.Message.Text != cfg.BotTriggerMessage
BadMessage(u) == u.text # BotTriggerMessage

\* _, ok := users[u.Message.From.Id]; !ok
BadUser(u) == u.from \notin BotUsers

\* no message sent to any chat
NoChats == [c \in {} |-> 0]

\* for chat := range reqs { telegramSendMessage(token, chat, text) }: one
\* message to every key of the map
SendAll(rs) == [c \in rs |-> 1]

\* The updates of a response that carry an update id and pass the three
\* tests, counted by chat
AuthCount(r) ==
    LET ok == {k \in 1..Len(r) : /\ r[k].id # 0
                                  /\ r[k].date >= StartTime
                                  /\ r[k].from \in BotUsers
                                  /\ r[k].text = BotTriggerMessage}
    IN  [c \in {r[k].chat : k \in ok} |-> Cardinality({k \in ok : r[k].chat = c})]

\* C23 mutant: f is called once for every requesting chat
RunsPerChat(rs) == Cardinality(rs)

\* f() is called once, outside the loops over reqs
RunsFor(rs) == 1

\* C24 mutant: the report goes out only when f returned no error
ReportChatsOnSuccess(rs, runErr) == IF runErr # "" THEN {} ELSE rs

\* the chats the report is sent to: for chat := range reqs
ReportChats(rs, runErr) == rs

Digit(n) == <<"0", "1", "2", "3", "4", "5", "6", "7", "8", "9">>[n + 1]

\* the %d verb
RECURSIVE Itoa(_)
Itoa(n) == IF n < 10 THEN Digit(n) ELSE Itoa(n \div 10) \o Digit(n % 10)

\* the %s verb on an error value: a nil error prints as %!s(<nil>)
FormatErr(err) == IF err = "" THEN "%!s(<nil>)" ELSE err

\* make([]taskResult, n)
ZeroResults(n) ==
    [k \in 1..n |-> [name |-> "", total |-> 0, done |-> 0, failed |-> 0, err |-> ""]]

\* f has not been called
NoRun == [results |-> <<>>, err |-> "none"]

\* What runExport returns: the error of newExport, or the slice of
\* export.process (its zero elements first) for one item that was
\* processed, failed the header check, or failed after one row was done
RunOutcomes ==
    {[results |-> <<>>, err |-> "failed init export: invalid config: duplicated task a"],
     [results |-> <<>>, err |-> ""],
     [results |-> ZeroResults(1) \o
          <<[name |-> "a", total |-> 2, done |-> 1, failed |-> 1, err |-> ""]>>,
      err |-> ""],
     [results |-> ZeroResults(1) \o
          <<[name |-> "a", total |-> 0, done |-> 0, failed |-> 0,
             err |-> "invalid source: invalid record id columns number"]>>,
      err |-> ""]}

\* the lines one result adds to the report; err is the error f returned,
\* nil in the branch that builds these lines
ResultLines(res, err) ==
    <<res.name>>
    \o (IF res.err # "" THEN <<"error: " \o FormatErr(err)>> ELSE <<>>)
    \o <<"records: total " \o Itoa(res.total) \o ", done " \o Itoa(res.done)
          \o ", failed " \o Itoa(res.failed)>>

RECURSIVE AllResultLines(_, _)
AllResultLines(rs, err) ==
    IF Len(rs) = 0 THEN <<>>
    ELSE ResultLines(Head(rs), err) \o AllResultLines(Tail(rs), err)

\* the report built from what f returned
Report(res) ==
    IF res.err # "" THEN <<"sync failed: " \o res.err>>
    ELSE AllResultLines(res.results, res.err)

BotIdle ==
    /\ botMaxErrors = 0
    /\ offset = 0
    /\ errnum = 0
    /\ bpc = "off"
    /\ updates = <<>>
    /\ uk = 0
    /\ reqs = {}
    /\ pollLog = <<>>
    /\ seen = {}
    /\ retErr = ""
    /\ syncs = 0
    /\ auth = NoChats
    /\ notices = NoChats
    /\ reports = NoChats
    /\ runs = 0
    /\ runRes = NoRun
    /\ report = <<>>

BotInit ==
    /\ botMaxErrors \in 0..MaxErrorsBound
    /\ offset = 0
    /\ errnum = 0
    /\ bpc = "poll"
    /\ updates = <<>>
    /\ uk = 0
    /\ reqs = {}
    /\ pollLog = <<>>
    /\ seen = {}
    /\ retErr = ""
    /\ syncs = 0
    /\ auth = NoChats
    /\ notices = NoChats
    /\ reports = NoChats
    /\ runs = 0
    /\ runRes = NoRun
    /\ report = <<>>

\* telegramGetUpdates returns the updates of the response
PollOk ==
    /\ bpc = "poll"
    /\ Len(pollLog) < MaxPolls
    /\ \E r \in Responses(offset) :
          /\ updates' = r
          /\ seen' = seen \cup ({r[k].id : k \in 1..Len(r)} \ {0})
          /\ auth' = AuthCount(r)
    /\ uk' = 0
    /\ reqs' = {}
    /\ pollLog' = Append(pollLog, TRUE)
    /\ bpc' = "handle"
    /\ UNCHANGED <<botMaxErrors, offset, errnum, retErr, syncs>>
    /\ UNCHANGED <<notices, reports, runs, runRes, report>>
    /\ UNCHANGED <<syncVars, catVars, expVars>>

\* telegramGetUpdates returns an error: errnum++, the loop ends or sleeps
PollFails ==
    /\ bpc = "poll"
    /\ Len(pollLog) < MaxPolls
    /\ pollLog' = Append(pollLog, FALSE)
    /\ errnum' = errnum + 1
    /\ IF TooManyErrors(errnum + 1, botMaxErrors)
       THEN bpc' = "stopped" /\ retErr' = "getUpdates: connection refused"
       ELSE bpc' = "sleep" /\ retErr' = retErr
    /\ updates' = <<>>
    /\ uk' = 0
    /\ reqs' = {}
    /\ UNCHANGED <<botMaxErrors, offset, seen, syncs>>
    /\ UNCHANGED <<auth, notices, reports, runs, runRes, report>>
    /\ UNCHANGED <<syncVars, catVars, expVars>>

\* One pass of "for _, u := range updates"
HandleUpdate ==
    /\ bpc = "handle"
    /\ uk < Len(updates)
    /\ uk' = uk + 1
    /\ LET u == updates[uk + 1]
       IN  IF u.id = 0
           THEN UNCHANGED <<offset, reqs>>
           ELSE /\ offset' = u.id
                /\ IF Stale(u) \/ BadUser(u) \/ BadMessage(u)
                   THEN reqs' = reqs
                   ELSE reqs' = reqs \cup {u.chat}
    /\ UNCHANGED <<botMaxErrors, errnum, bpc, updates, pollLog, seen, retErr, syncs>>
    /\ UNCHANGED <<auth, notices, reports, runs, runRes, report>>
    /\ UNCHANGED <<syncVars, catVars, expVars>>

\* The end of the loop over the updates: the closure returns reqs, errnum = 0,
\* and with requests the "starting sync..." notices, otherwise the sleep
CycleEnd ==
    /\ bpc = "handle"
    /\ uk = Len(updates)
    /\ errnum' = 0
    /\ updates' = <<>>
    /\ uk' = 0
    /\ bpc' = IF reqs # {} THEN "sync" ELSE "sleep"
    /\ notices' = IF reqs # {} THEN SendAll(reqs) ELSE notices
    /\ UNCHANGED <<botMaxErrors, offset, reqs, pollLog, seen, retErr, syncs>>
    /\ UNCHANGED <<auth, reports, runs, runRes, report>>
    /\ UNCHANGED <<syncVars, catVars, expVars>>

\* f() and the report built from what it returned
RunSync ==
    /\ bpc = "sync"
    /\ syncs' = syncs + RunsFor(reqs)
    /\ runs' = runs + RunsFor(reqs)
    /\ \E res \in RunOutcomes :
          /\ runRes' = res
          /\ report' = Report(res)
    /\ bpc' = "report"
    /\ UNCHANGED <<botMaxErrors, offset, errnum, updates, uk, reqs, pollLog, seen, retErr>>
    /\ UNCHANGED <<auth, notices, reports>>
    /\ UNCHANGED <<syncVars, catVars, expVars>>

\* the report is sent to the requesting chats
SendReports ==
    /\ bpc = "report"
    /\ reports' = SendAll(ReportChats(reqs, runRes.err))
    /\ bpc' = "sleep"
    /\ UNCHANGED <<botMaxErrors, offset, errnum, updates, uk, reqs, pollLog, seen, retErr,
                   syncs>>
    /\ UNCHANGED <<auth, notices, runs, runRes, report>>
    /\ UNCHANGED <<syncVars, catVars, expVars>>

\* time.Sleep(interval); the next pass of the loop starts with the locals
\* of the last one out of scope
Sleep ==
    /\ bpc = "sleep"
    /\ bpc' = "poll"
    /\ reqs' = {}
    /\ auth' = NoChats
    /\ notices' = NoChats
    /\ reports' = NoChats
    /\ runs' = 0
    /\ runRes' = NoRun
    /\ report' = <<>>
    /\ UNCHANGED <<botMaxErrors, offset, errnum, updates, uk, pollLog, seen, retErr, syncs>>
    /\ UNCHANGED <<syncVars, catVars, expVars>>

----------------------------------------------------------------------------
(* Export Orchestrator: export.fetch, export.process, export.upload          *)
(* (src/export.go) over the configured items                                *)

TaskNames == <<"a", "b", "c">>

\* The spreadsheets of the items: a pending row, a settled row, a header
\* without the record-id column of T2, a pending row with a cell beyond the
\* last header column
ItemSheets ==
    {<<HeaderRegular(0), <<"", "", "T">>>>,
     <<HeaderRegular(0), <<"429: rate limited", "", "T", "429: rate limited">>>>,
     <<HeaderMissing, <<"T">>>>,
     <<HeaderRegular(0), <<"", "", "T", "", "", "x">>>>}

\* the targets ts in the order ord visits them
RECURSIVE InOrder(_, _)
InOrder(ord, ts) ==
    IF Len(ord) = 0 THEN <<>>
    ELSE IF Head(ord) \in ts THEN <<Head(ord)>> \o InOrder(Tail(ord), ts)
    ELSE InOrder(Tail(ord), ts)

\* rec[fields[i]] = cell, for a row with more cells than the header has columns
RowPanics(fields, row) == Len(row) > Len(fields)

\* The row loop of task.process from the physical row n on; acc = [table,
\* total, done, fail, updated, err, panic]
RECURSIVE RowLoop(_, _, _, _, _)
RowLoop(src, n, ord, out, acc) ==
    IF n > Len(src) \/ Len(src[n]) = 0 THEN acc
    ELSE LET fields == src[1]
             ins == insertTargets(fields, src[n])
             upd == updateTargets(fields, src[n])
             counted == [acc EXCEPT !.total = @ + 1]
         IN  IF ins = {} /\ upd = {} THEN RowLoop(src, n + 1, ord, out, counted)
             ELSE IF RowPanics(fields, src[n]) THEN [counted EXCEPT !.panic = TRUE]
             ELSE LET st == InsertLoop(InOrder(ord, ins), n, fields, out,
                                [table |-> acc.table, calls |-> {}, ncalls |-> 0,
                                 success |-> TRUE, err |-> ""])
                  IN  IF st.err # ""
                      THEN [counted EXCEPT !.table = st.table, !.err = st.err]
                      ELSE RowLoop(src, n + 1, ord, out,
                               [counted EXCEPT !.table = st.table,
                                               !.done = IF st.success THEN @ + 1 ELSE @,
                                               !.fail = IF st.success THEN @ ELSE @ + 1,
                                               !.updated = TRUE])

\* task.process on the fetched file src: the header check, the row loop, the
\* save of the result file when task.updated
process(src, ord, out, saved) ==
    LET start == [table |-> src, total |-> 0, done |-> 0, fail |-> 0, updated |-> FALSE,
                  err |-> "", panic |-> FALSE, result |-> NoFile]
    IN  IF HeaderError(src[1]) # "" THEN [start EXCEPT !.err = HeaderError(src[1])]
        ELSE LET r == RowLoop(src, 2, ord, out, start)
             IN  IF r.panic \/ r.err # "" \/ ~r.updated THEN r
                 ELSE IF saved THEN [r EXCEPT !.result = r.table]
                 ELSE [r EXCEPT !.err = "failed to save file"]

\* the result of one item
taskResult(name, p) ==
    [name |-> name, total |-> p.total, done |-> p.done, failed |-> p.fail, err |-> p.err]

ExportIdle ==
    /\ tasks = {}
    /\ sheets = <<>>
    /\ phase = "off"
    /\ visited = {}
    /\ fetched = {}
    /\ processed = <<>>
    /\ uploaded = {}
    /\ results = <<>>

\* newExport: one task per configured item
ExportInit ==
    /\ \E n \in 1..MaxTasks :
          /\ tasks = {TaskNames[k] : k \in 1..n}
          /\ sheets \in [{TaskNames[k] : k \in 1..n} -> ItemSheets]
    /\ phase = "fetch"
    /\ visited = {}
    /\ fetched = {}
    /\ processed = <<>>
    /\ uploaded = {}
    /\ results = <<>>

\* export.fetch, one pass of the loop: the item is deleted when its fetch fails
FetchItem ==
    /\ phase = "fetch"
    /\ \E name \in tasks \ visited, ok \in BOOLEAN :
          /\ visited' = visited \cup {name}
          /\ IF ok
             THEN fetched' = fetched \cup {name} /\ tasks' = tasks
             ELSE fetched' = fetched /\ tasks' = tasks \ {name}
    /\ UNCHANGED <<sheets, phase, processed, uploaded, results>>
    /\ UNCHANGED <<syncVars, catVars, botVars>>

\* export.process: results := make([]taskResult, len(exp.tasks))
BeginProcess ==
    /\ phase = "fetch"
    /\ tasks \ visited = {}
    /\ phase' = "process"
    /\ visited' = {}
    /\ results' = ZeroResults(Cardinality(tasks))
    /\ UNCHANGED <<tasks, sheets, fetched, processed, uploaded>>
    /\ UNCHANGED <<syncVars, catVars, botVars>>

\* export.process, one pass of the loop: results = append(results, result)
ProcessItem ==
    /\ phase = "process"
    /\ \E name \in tasks \ visited, ord \in Orders(TargetIDs),
          out \in [TargetIDs -> Outcomes], saved \in BOOLEAN :
          LET p == process(Export(sheets[name]), ord, out, saved)
          IN  IF p.panic
              THEN /\ phase' = "panic"
                   /\ UNCHANGED <<visited, processed, results>>
              ELSE /\ phase' = phase
                   /\ visited' = visited \cup {name}
                   /\ processed' = [t \in DOMAIN processed \cup {name} |->
                                       IF t = name THEN p ELSE processed[t]]
                   /\ results' = Append(results, taskResult(name, p))
    /\ UNCHANGED <<tasks, sheets, fetched, uploaded>>
    /\ UNCHANGED <<syncVars, catVars, botVars>>

\* export.process returns, export.upload starts
BeginUpload ==
    /\ phase = "process"
    /\ tasks \ visited = {}
    /\ phase' = "upload"
    /\ visited' = {}
    /\ UNCHANGED <<tasks, sheets, fetched, processed, uploaded, results>>
    /\ UNCHANGED <<syncVars, catVars, botVars>>

\* export.upload, one pass of the loop: task.update
UploadItem ==
    /\ phase = "upload"
    /\ \E name \in tasks \ visited, sent \in BOOLEAN :
          /\ visited' = visited \cup {name}
          /\ uploaded' = IF processed[name].updated /\ processed[name].result # NoFile /\ sent
                         THEN uploaded \cup {name}
                         ELSE uploaded
    /\ UNCHANGED <<tasks, sheets, phase, fetched, processed, results>>
    /\ UNCHANGED <<syncVars, catVars, botVars>>

\* export.upload returns, exp.clean(), runExport returns the results
EndExport ==
    /\ phase = "upload"
    /\ tasks \ visited = {}
    /\ phase' = "done"
    /\ UNCHANGED <<tasks, sheets, visited, fetched, processed, uploaded, results>>
    /\ UNCHANGED <<syncVars, catVars, botVars>>

----------------------------------------------------------------------------
(* Catalog Target: htmlCatalogTarget (src/target.go) *)

\* The index file as its tokens: one <li> entry [id, title] per item link and
\* the placeholder token.
Placeholder == [id |-> 0, title |-> "<!--index-->", href |-> ""]

\* cfg.Catalog and cfg.Name of the Catalog Target
CatalogName == "cat"

CatalogTargetName == "y"

AssetNames == {"a.mp3", "b.mp3"}

\* fmt.Sprintf(`<li><a href='/%s?item=%s'>%s</a></li>`, ct.name, id, title):
\* the href of the entry
IndexLink(name, id) == "/" \o name \o "?item=" \o ToString(id)

\* cfg.Name of the second Catalog Target of the item
TwinTargetName == "z"

\* the entry a target named n splices into its index buffer
IndexEntryOf(n, id, title) == [id |-> id, title |-> title, href |-> IndexLink(n, id)]

IndexEntry(id, title) == IndexEntryOf(CatalogTargetName, id, title)

\* row["audio"] = fmt.Sprintf("//%s/%s/%s", ct.catalog, id, aname)
AudioRef(catalog, id, aname) == "//" \o catalog \o "/" \o ToString(id) \o "/" \o aname

NewDir == [page |-> "none", asset |-> "none", copied |-> FALSE, audioRef |-> ""]

OldDir == [page |-> "done", asset |-> "none", copied |-> FALSE, audioRef |-> ""]

NoCache == [n \in AssetNames |-> "none"]

NoCreates == [n \in AssetNames |-> 0]

NoAsset == [name |-> "", present |-> FALSE, lookup |-> FALSE, created |-> FALSE, from |-> ""]

\* C14 mutant: the cache file is taken to be absent whatever os.Stat finds
CacheAbsentAlways(c) == TRUE

\* os.Stat(tafile) fails with IsNotExist
CacheAbsent(c) == c = "none"

\* C20 mutant: the last-assigned id stays where it was
KeepLastId(id) == id

\* ct.lastId++
AdvanceLastId(id) == id + 1

\* A text is held as its lines, the pieces between the newlines: "a\nb" is
\* <<"a", "b">>, "\n" is <<"", "">> and the empty text is <<"">>. The lines
\* are plain text, without markup.
EmptyText == <<"">>

NoRow == [title |-> "", text |-> EmptyText, audio |-> ""]

\* The maps in memory, by reference: rec is the map task.process built for
\* the row, row2 the map copyRow makes
RowMaps(row) == [r \in {"rec", "row2"} |-> IF r = "rec" THEN row ELSE NoRow]

\* C30 mutant: Insert works on the map it was passed
sameRow(maps, r) == [maps |-> maps, ref |-> r]

\* copyRow: a new map with the entries of row
copyRow(maps, r) == [maps |-> [maps EXCEPT !["row2"] = maps[r]], ref |-> "row2"]

\* row[field] = v
SetField(maps, r, field, v) == [maps EXCEPT ![r][field] = v]

\* strings.ReplaceAll(text, "\n", "</p><p>") between "<p>" and "</p>": one
\* paragraph per line
RECURSIVE Wrapped(_)
Wrapped(lines) ==
    IF Len(lines) = 0 THEN <<>>
    ELSE <<[open |-> "<p>", body |-> Head(lines), close |-> "</p>"]>> \o Wrapped(Tail(lines))

\* strings.ReplaceAll(..., "<p></p>", ""): the paragraphs without body go
RECURSIVE DropEmpty(_)
DropEmpty(ps) ==
    IF Len(ps) = 0 THEN <<>>
    ELSE IF Head(ps).body = "" THEN DropEmpty(Tail(ps))
    ELSE <<Head(ps)>> \o DropEmpty(Tail(ps))

RECURSIVE Joined(_)
Joined(ps) ==
    IF Len(ps) = 0 THEN ""
    ELSE Head(ps).open \o Head(ps).body \o Head(ps).close \o Joined(Tail(ps))

\* The rewritten text of src/target.go:250-254; it holds no newline, so it
\* is one line
Paragraphs(text) == <<Joined(DropEmpty(Wrapped(text)))>>

NoInsert == [id |-> 0, title |-> "", audio |-> "", cached |-> FALSE,
             maps |-> RowMaps(NoRow), row |-> "", arg |-> NoRow]

NoReturn == [kind |-> "none", id |-> 0, created |-> FALSE, stage |-> "", kept |-> TRUE]

NoTwin == [name |-> "", indexBuf |-> <<>>, lastId |-> 0, tmpIndex |-> <<>>]

\* The rows Insert is called with: title, text and the audio file name
Rows ==
    {[title |-> "A", text |-> <<"a", "b">>, audio |-> ""],
     [title |-> "B", text |-> <<"", "">>, audio |-> "a.mp3"],
     [title |-> "D", text |-> <<"a", "", "b">>, audio |-> "b.mp3"],
     [title |-> "", text |-> <<"x">>, audio |-> ""],
     [title |-> "C", text |-> EmptyText, audio |-> ""]}

RECURSIVE Ascending(_)
Ascending(S) ==
    IF S = {} THEN <<>>
    ELSE LET m == CHOOSE x \in S : \A y \in S : x <= y
         IN  <<m>> \o Ascending(S \ {m})

\* A catalog written by earlier runs: the items ids, all published in order
OldIndex(ids) ==
    IF ids = {} THEN <<>>
    ELSE [k \in 1..Cardinality(ids) |-> IndexEntry(Ascending(ids)[k], "A")]
         \o <<Placeholder>>

\* os.MkdirAll(idir): creates the directory unless it exists
MkdirAll(dirs, id) ==
    [k \in DOMAIN dirs \cup {id} |-> IF k \in DOMAIN dirs THEN dirs[k] ELSE NewDir]

\* C5 mutant: the compensating cleanup removes nothing
RemoveNothing(dirs, id) == dirs

\* os.RemoveAll(idir)
RemoveAll(dirs, id) == [k \in DOMAIN dirs \ {id} |-> dirs[k]]

\* C7 mutant: the number of entries instead of the largest
CountEntries(ids) == Cardinality(ids)

\* newHTMLCatalogTarget: maxId over the numeric entries of the catalog directory
RecoverLastId(ids) == IF ids = {} THEN 0 ELSE Max(ids)

\* bytes.Replace(ct.indexBuf, placeholder, <li>entry</li> + placeholder, 1)
IndexReplace(buf, entry) ==
    IF \E k \in 1..Len(buf) : buf[k] = Placeholder
    THEN LET k == CHOOSE j \in 1..Len(buf) :
                      buf[j] = Placeholder /\ \A m \in 1..(j - 1) : buf[m] # Placeholder
         IN  SubSeq(buf, 1, k - 1) \o <<entry, Placeholder>> \o SubSeq(buf, k + 1, Len(buf))
    ELSE buf

\* C6 mutant: the temp index path is the path of the catalog index
WriteInPlace(buf, index) == buf

\* The catalog index file after os.WriteFile(ct.tmpIndex, ct.indexBuf)
IndexAfterTmpWrite(buf, index) == index

CatInit ==
    /\ \E ids \in SUBSET (1..MaxOldId) :
          /\ catalogDir = [k \in ids |-> OldDir]
          /\ catalogIndex = OldIndex(ids)
    /\ tmpIndex = <<>>
    /\ cache = NoCache
    /\ creates = NoCreates
    /\ assetLog = NoAsset
    /\ indexBuf = <<>>
    /\ lastId = 0
    /\ cpc = "down"
    /\ cur = NoInsert
    /\ ret = NoReturn
    /\ preIndex = <<>>
    /\ startDir = {}
    /\ startIndex = <<>>
    /\ okItems = <<>>
    /\ ninserts = 0
    /\ nrestarts = 0
    /\ preDirs = {}
    /\ ctName = CatalogTargetName
    /\ twin = NoTwin

\* No Catalog Target in the behaviours of Spec
CatIdle ==
    /\ catalogDir = <<>>
    /\ catalogIndex = <<>>
    /\ tmpIndex = <<>>
    /\ cache = NoCache
    /\ creates = NoCreates
    /\ assetLog = NoAsset
    /\ indexBuf = <<>>
    /\ lastId = 0
    /\ cpc = "down"
    /\ cur = NoInsert
    /\ ret = NoReturn
    /\ preIndex = <<>>
    /\ startDir = {}
    /\ startIndex = <<>>
    /\ okItems = <<>>
    /\ ninserts = 0
    /\ nrestarts = 0
    /\ preDirs = {}
    /\ ctName = CatalogTargetName
    /\ twin = NoTwin

\* newHTMLCatalogTarget, in a new task directory
Construct ==
    /\ cpc = "down"
    /\ catalogIndex' = IF catalogIndex = <<>> THEN <<Placeholder>> ELSE catalogIndex
    /\ indexBuf' = catalogIndex'
    /\ lastId' = RecoverLastId(DOMAIN catalogDir)
    /\ tmpIndex' = <<>>
    /\ cache' = NoCache
    /\ creates' = NoCreates
    /\ assetLog' = NoAsset
    /\ cpc' = "ready"
    /\ cur' = NoInsert
    /\ ret' = NoReturn
    /\ preIndex' = catalogIndex'
    /\ startDir' = DOMAIN catalogDir
    /\ startIndex' = catalogIndex'
    /\ okItems' = <<>>
    /\ preDirs' = DOMAIN catalogDir
    /\ UNCHANGED <<catalogDir, ninserts, nrestarts, ctName, twin>>
    /\ UNCHANGED <<syncVars, botVars, expVars>>

\* The error return of Insert after the item directory was created:
\* _ = os.RemoveAll(idir); return "", err
InsertFails(stage) ==
    /\ catalogDir' = RemoveAll(catalogDir, cur.id)
    /\ ret' = [kind |-> "err", id |-> cur.id, created |-> TRUE, stage |-> stage,
                kept |-> cur.maps["rec"] = cur.arg]
    /\ cur' = NoInsert
    /\ cpc' = "ready"

\* Insert: validation of title and text, id allocation, os.MkdirAll(idir)
InsertBegin ==
    /\ cpc = "ready"
    /\ ninserts < MaxInserts
    /\ ninserts' = ninserts + 1
    /\ preIndex' = catalogIndex
    /\ preDirs' = DOMAIN catalogDir
    /\ \E rec \in Rows :
        \E copy \in {copyRow(RowMaps(rec), "rec")} :
        \E row \in {copy.maps[copy.ref]}, made \in BOOLEAN :
          LET rewritten == SetField(copy.maps, copy.ref, "text", Paragraphs(row.text))
          IN  IF row.title = "" \/ row.text = EmptyText
              THEN /\ ret' = [kind |-> "err", id |-> 0, created |-> FALSE,
                              stage |-> "validate", kept |-> copy.maps["rec"] = rec]
                   /\ UNCHANGED <<catalogDir, cur, cpc>>
              ELSE IF ~made
              THEN /\ ret' = [kind |-> "err", id |-> lastId + 1, created |-> FALSE,
                              stage |-> "mkdir", kept |-> rewritten["rec"] = rec]
                   /\ UNCHANGED <<catalogDir, cur, cpc>>
              ELSE /\ catalogDir' = MkdirAll(catalogDir, lastId + 1)
                   /\ cur' = [id |-> lastId + 1, title |-> row.title, audio |-> row.audio,
                              cached |-> FALSE, maps |-> rewritten, row |-> copy.ref,
                              arg |-> rec]
                   /\ ret' = NoReturn
                   /\ cpc' = IF row.audio # "" THEN "asset" ELSE "page"
    /\ assetLog' = NoAsset
    /\ UNCHANGED <<catalogIndex, tmpIndex, cache, indexBuf, lastId, startDir, startIndex,
                   okItems, nrestarts, creates, ctName, twin>>
    /\ UNCHANGED <<syncVars, botVars, expVars>>

\* os.OpenFile(iafile, O_CREATE|O_EXCL|O_WRONLY) can succeed: the item
\* directory holds no file of that name (a directory two targets share may
\* hold the asset of the published item)
ItemFileFree(dir, id, aname) ==
    dir.asset = "none" \/ dir.audioRef # AudioRef(CatalogName, id, aname)

\* Insert, audio: os.Stat of the cache file, then either lookup, download and
\* exclusive create of the cache file and of the item's file, or open of the
\* cache file and exclusive create of the item's file
AssetOpen ==
    /\ cpc = "asset"
    /\ LET name == cur.audio
           present == cache[name] # "none"
           log == [name |-> name, present |-> present, lookup |-> FALSE, created |-> FALSE,
                   from |-> ""]
       IN  IF CacheAbsent(cache[name])
           THEN \E step \in {"lookup", "cache file", "item file", "ok"} :
                   IF step = "lookup"
                   THEN /\ InsertFails("asset")
                        /\ assetLog' = [log EXCEPT !.lookup = TRUE]
                        /\ UNCHANGED <<cache, creates>>
                   ELSE IF step = "cache file" \/ present
                   THEN /\ InsertFails("asset")
                        /\ assetLog' = [log EXCEPT !.lookup = TRUE]
                        /\ UNCHANGED <<cache, creates>>
                   ELSE IF step = "item file" \/ ~ItemFileFree(catalogDir[cur.id], cur.id, name)
                   THEN /\ InsertFails("asset")
                        /\ cache' = [cache EXCEPT ![name] = "empty"]
                        /\ creates' = [creates EXCEPT ![name] = @ + 1]
                        /\ assetLog' = [log EXCEPT !.lookup = TRUE, !.created = TRUE]
                   ELSE /\ cache' = [cache EXCEPT ![name] = "empty"]
                        /\ creates' = [creates EXCEPT ![name] = @ + 1]
                        /\ assetLog' = [log EXCEPT !.lookup = TRUE, !.created = TRUE,
                                                   !.from = "object store"]
                        /\ catalogDir' = [catalogDir EXCEPT ![cur.id].asset = "empty"]
                        /\ cur' = [cur EXCEPT !.cached = FALSE]
                        /\ cpc' = "copy"
                        /\ UNCHANGED ret
           ELSE \E opened \in BOOLEAN :
                   IF ~opened \/ ~ItemFileFree(catalogDir[cur.id], cur.id, name)
                   THEN /\ InsertFails("asset")
                        /\ assetLog' = log
                        /\ UNCHANGED <<cache, creates>>
                   ELSE /\ catalogDir' = [catalogDir EXCEPT ![cur.id].asset = "empty"]
                        /\ cur' = [cur EXCEPT !.cached = TRUE]
                        /\ assetLog' = [log EXCEPT !.from = "cache"]
                        /\ cpc' = "copy"
                        /\ UNCHANGED <<ret, cache, creates>>
    /\ UNCHANGED <<catalogIndex, tmpIndex, indexBuf, lastId, preIndex, startDir,
                   startIndex, okItems, ninserts, nrestarts, preDirs, ctName, twin>>
    /\ UNCHANGED <<syncVars, botVars, expVars>>

\* Insert, audio: io.Copy into the item's file (and into the cache file when
\* the asset is downloaded), then the rewrite of row["audio"]
AssetCopy ==
    /\ cpc = "copy"
    /\ \E copied \in BOOLEAN :
          IF ~copied
          THEN /\ InsertFails("copy")
               /\ cache' = IF cur.cached THEN cache ELSE [cache EXCEPT ![cur.audio] = "partial"]
          ELSE /\ cache' = IF cur.cached THEN cache ELSE [cache EXCEPT ![cur.audio] = "full"]
               /\ catalogDir' = [catalogDir EXCEPT
                                    ![cur.id].asset = IF cur.cached THEN cache[cur.audio]
                                                      ELSE "full",
                                    ![cur.id].copied = TRUE]
               /\ cur' = [cur EXCEPT !.maps = SetField(cur.maps, cur.row, "audio",
                                          AudioRef(CatalogName, cur.id, cur.audio))]
               /\ cpc' = "page"
               /\ UNCHANGED ret
    /\ UNCHANGED <<catalogIndex, tmpIndex, indexBuf, lastId, preIndex, startDir,
                   startIndex, okItems, ninserts, nrestarts, creates, assetLog, preDirs,
                   ctName, twin>>
    /\ UNCHANGED <<syncVars, botVars, expVars>>

\* Insert: exclusive create of the item's index.html
PageCreate ==
    /\ cpc = "page"
    /\ \E created \in BOOLEAN :
          IF ~created \/ catalogDir[cur.id].page # "none"
          THEN InsertFails("page")
          ELSE /\ catalogDir' = [catalogDir EXCEPT ![cur.id].page = "partial"]
               /\ cpc' = "render"
               /\ UNCHANGED <<cur, ret>>
    /\ UNCHANGED <<catalogIndex, tmpIndex, cache, indexBuf, lastId, preIndex, startDir,
                   startIndex, okItems, ninserts, nrestarts, creates, assetLog, preDirs,
                   ctName, twin>>
    /\ UNCHANGED <<syncVars, botVars, expVars>>

\* Insert: ct.template.Execute(f, row), then the splice into ct.indexBuf
PageRender ==
    /\ cpc = "render"
    /\ \E rendered \in BOOLEAN :
          IF ~rendered
          THEN InsertFails("render") /\ UNCHANGED indexBuf
          ELSE /\ catalogDir' = [catalogDir EXCEPT
                                    ![cur.id].page = "done",
                                    ![cur.id].audioRef = cur.maps[cur.row].audio]
               /\ indexBuf' = IndexReplace(indexBuf, IndexEntryOf(ctName, cur.id, cur.title))
               /\ cpc' = "tmp"
               /\ UNCHANGED <<cur, ret>>
    /\ UNCHANGED <<catalogIndex, tmpIndex, cache, lastId, preIndex, startDir,
                   startIndex, okItems, ninserts, nrestarts, creates, assetLog, preDirs,
                   ctName, twin>>
    /\ UNCHANGED <<syncVars, botVars, expVars>>

\* Insert: os.WriteFile(ct.tmpIndex, ct.indexBuf)
TmpWrite ==
    /\ cpc = "tmp"
    /\ \E written \in BOOLEAN :
          IF ~written
          THEN InsertFails("tmp") /\ UNCHANGED <<tmpIndex, catalogIndex>>
          ELSE /\ tmpIndex' = indexBuf
               /\ catalogIndex' = IndexAfterTmpWrite(indexBuf, catalogIndex)
               /\ cpc' = "rename"
               /\ UNCHANGED <<catalogDir, cur, ret>>
    /\ UNCHANGED <<cache, indexBuf, lastId, preIndex, startDir, startIndex, okItems,
                   ninserts, nrestarts, creates, assetLog, preDirs, ctName, twin>>
    /\ UNCHANGED <<syncVars, botVars, expVars>>

\* Insert: os.Rename(ct.tmpIndex, ct.catalogIndex), ct.lastId++, return id
Rename ==
    /\ cpc = "rename"
    /\ \E renamed \in BOOLEAN :
          IF ~renamed
          THEN InsertFails("rename") /\ UNCHANGED <<tmpIndex, catalogIndex, lastId, okItems>>
          ELSE /\ catalogIndex' = tmpIndex
               /\ tmpIndex' = <<>>
               /\ lastId' = AdvanceLastId(lastId)
               /\ okItems' = Append(okItems, IndexEntryOf(ctName, cur.id, cur.title))
               /\ ret' = [kind |-> "ok", id |-> cur.id, created |-> TRUE, stage |-> "",
                          kept |-> cur.maps["rec"] = cur.arg]
               /\ cur' = NoInsert
               /\ cpc' = "ready"
               /\ UNCHANGED catalogDir
    /\ UNCHANGED <<cache, indexBuf, preIndex, startDir, startIndex, ninserts, nrestarts,
                   creates, assetLog, preDirs, ctName, twin>>
    /\ UNCHANGED <<syncVars, botVars, expVars>>

\* telegramTarget.Insert of the same task directory: the template, then the
\* message, or the audio sent from the Asset Cache or downloaded into it
TelegramInsert ==
    /\ cpc = "ready"
    /\ ninserts < MaxInserts
    /\ ninserts' = ninserts + 1
    /\ \E rec \in Rows :
        \E copy \in {copyRow(RowMaps(rec), "rec")} :
        \E row \in {copy.maps[copy.ref]}, kept \in {copy.maps["rec"] = rec} :
        \E name \in {row.audio},
           step \in {"render", "lookup", "cache file", "open", "copy", "post", "ok"} :
          LET present == cache[name] # "none"
              log == [name |-> name, present |-> present, lookup |-> FALSE,
                      created |-> FALSE, from |-> ""]
          IN  /\ ret' = [kind |-> IF step = "ok" THEN "ok" ELSE "err", id |-> 0,
                          created |-> FALSE, stage |-> "telegram", kept |-> kept]
              /\ IF name = "" \/ step = "render"
                 THEN /\ step \in {"render", "post", "ok"}
                      /\ assetLog' = NoAsset
                      /\ UNCHANGED <<cache, creates>>
                 ELSE IF CacheAbsent(cache[name])
                 THEN /\ step # "open"
                      /\ IF step = "lookup" \/ step = "cache file" \/ present
                         THEN /\ assetLog' = [log EXCEPT !.lookup = TRUE]
                              /\ UNCHANGED <<cache, creates>>
                         ELSE /\ cache' = [cache EXCEPT
                                              ![name] = IF step = "copy" THEN "partial" ELSE "full"]
                              /\ creates' = [creates EXCEPT ![name] = @ + 1]
                              /\ assetLog' = [log EXCEPT !.lookup = TRUE, !.created = TRUE,
                                                         !.from = "object store"]
                 ELSE /\ step \notin {"lookup", "cache file"}
                      /\ assetLog' = IF step = "open" THEN log ELSE [log EXCEPT !.from = "cache"]
                      /\ UNCHANGED <<cache, creates>>
    /\ UNCHANGED <<catalogDir, catalogIndex, tmpIndex, indexBuf, lastId, cpc, cur, preIndex,
                   startDir, startIndex, okItems, nrestarts, preDirs, ctName, twin>>
    /\ UNCHANGED <<syncVars, botVars, expVars>>

\* The process dies, between two Inserts or inside one: the memory of the
\* target instance is lost, the files stay
Crash ==
    /\ cpc # "down"
    /\ nrestarts < MaxRestarts
    /\ nrestarts' = nrestarts + 1
    /\ cpc' = "down"
    /\ indexBuf' = <<>>
    /\ lastId' = 0
    /\ cur' = NoInsert
    /\ ret' = NoReturn
    /\ UNCHANGED <<catalogDir, catalogIndex, tmpIndex, cache, preIndex, startDir,
                   startIndex, okItems, ninserts, creates, assetLog, preDirs, ctName, twin>>
    /\ UNCHANGED <<syncVars, botVars, expVars>>

\* newTask: the two Catalog Targets of the item are constructed one after
\* the other on the same catalog directory; both read the same index file
\* and find the same largest item id
ConstructPair ==
    /\ cpc = "down"
    /\ catalogIndex' = IF catalogIndex = <<>> THEN <<Placeholder>> ELSE catalogIndex
    /\ indexBuf' = catalogIndex'
    /\ lastId' = RecoverLastId(DOMAIN catalogDir)
    /\ ctName' = CatalogTargetName
    /\ twin' = [name |-> TwinTargetName, indexBuf |-> catalogIndex',
                 lastId |-> RecoverLastId(DOMAIN catalogDir), tmpIndex |-> <<>>]
    /\ tmpIndex' = <<>>
    /\ cache' = NoCache
    /\ creates' = NoCreates
    /\ assetLog' = NoAsset
    /\ cpc' = "ready"
    /\ cur' = NoInsert
    /\ ret' = NoReturn
    /\ preIndex' = catalogIndex'
    /\ startDir' = DOMAIN catalogDir
    /\ startIndex' = catalogIndex'
    /\ okItems' = <<>>
    /\ preDirs' = DOMAIN catalogDir
    /\ UNCHANGED <<catalogDir, ninserts, nrestarts>>
    /\ UNCHANGED <<syncVars, botVars, expVars>>

\* task.process, for _, t := range insertTargets: the next Insert is called
\* on the other Catalog Target of the item
Switch ==
    /\ cpc = "ready"
    /\ twin # NoTwin
    /\ ctName' = twin.name
    /\ indexBuf' = twin.indexBuf
    /\ lastId' = twin.lastId
    /\ tmpIndex' = twin.tmpIndex
    /\ twin' = [name |-> ctName, indexBuf |-> indexBuf, lastId |-> lastId,
                 tmpIndex |-> tmpIndex]
    /\ UNCHANGED <<catalogDir, catalogIndex, cache, cpc, cur, ret, preIndex, startDir,
                   startIndex, okItems, ninserts, nrestarts, creates, assetLog, preDirs>>
    /\ UNCHANGED <<syncVars, botVars, expVars>>

SyncIdle ==
    /\ remote = <<>>
    /\ source = NoFile
    /\ table = NoFile
    /\ result = NoFile
    /\ pc = "off"
    /\ run = 0
    /\ i = 1
    /\ total = 0
    /\ done = 0
    /\ fail = 0
    /\ updated = FALSE
    /\ perr = ""
    /\ calls = {}
    /\ ncalls = 0
    /\ uploads = 0
    /\ failedBefore = {}
    /\ okBefore = {}
    /\ skipped = {}
    /\ faults = 0

InitCatalog == SyncIdle /\ CatInit /\ BotIdle /\ ExportIdle

NextCatalog ==
    \/ Construct
    \/ InsertBegin
    \/ AssetOpen
    \/ AssetCopy
    \/ PageCreate
    \/ PageRender
    \/ TmpWrite
    \/ Rename
    \/ TelegramInsert
    \/ Crash

SpecCatalog == InitCatalog /\ [][NextCatalog]_vars

NextShared ==
    \/ ConstructPair
    \/ Switch
    \/ InsertBegin
    \/ AssetOpen
    \/ AssetCopy
    \/ PageCreate
    \/ PageRender
    \/ TmpWrite
    \/ Rename

SpecShared == InitCatalog /\ [][NextShared]_vars

----------------------------------------------------------------------------
(* One task through the runs of the Export Orchestrator *)

Init ==
    /\ CatIdle
    /\ BotIdle
    /\ ExportIdle
    /\ remote \in Sheets
    /\ source = NoFile
    /\ table = NoFile
    /\ result = NoFile
    /\ pc = "idle"
    /\ run = 0
    /\ i = 1
    /\ total = 0
    /\ done = 0
    /\ fail = 0
    /\ updated = FALSE
    /\ perr = ""
    /\ calls = {}
    /\ ncalls = 0
    /\ uploads = 0
    /\ failedBefore = {}
    /\ okBefore = {}
    /\ skipped = {}
    /\ faults = 0

\* The outcomes of a call to the environment: it succeeds, or fails while
\* the behaviour has failures left.
Attempts == IF faults < MaxFaults THEN {TRUE, FALSE} ELSE {TRUE}

\* The outcomes of the Inserts of one row: any, within the failures left
InsertOutcomes(ins) ==
    {o \in [ins -> Outcomes] : Cardinality({t \in ins : o[t] = "fail"}) <= MaxFaults - faults}

FailedPairs(cs) == {<<c.row, c.target>> : c \in {d \in cs : ~d.ok}}

OkPairs(cs) == {<<c.row, c.target>> : c \in {d \in cs : d.ok}}

\* C21 mutant: a row whose read fails ends the row loop
ReadErrorEndsLoop == "returned"

\* rows.Columns() failed: log, continue
OnReadError == "rows"

\* newExport + export.fetch: a new task object, task.fetch exports the remote
\* sheet to task.source; a task whose fetch fails is dropped from the run.
Fetch ==
    /\ pc = "idle"
    /\ run < MaxRuns
    /\ failedBefore' = failedBefore \cup FailedPairs(calls)
    /\ okBefore' = okBefore \cup OkPairs(calls)
    /\ skipped' = {}
    /\ i' = 1
    /\ total' = 0
    /\ done' = 0
    /\ fail' = 0
    /\ updated' = FALSE
    /\ perr' = ""
    /\ calls' = {}
    /\ ncalls' = 0
    /\ uploads' = 0
    /\ result' = NoFile
    /\ table' = NoFile
    /\ UNCHANGED remote
    /\ UNCHANGED <<catVars, botVars, expVars>>
    /\ \E ok \in Attempts :
          IF ok
          THEN /\ source' = Export(remote)
               /\ pc' = "fetched"
               /\ run' = run
               /\ faults' = faults
          ELSE /\ source' = NoFile
               /\ pc' = "idle"
               /\ run' = run + 1
               /\ faults' = faults + 1

\* task.process up to the row loop: open the source, read and validate the header
OpenSource ==
    /\ pc = "fetched"
    /\ table' = source
    /\ i' = 1
    /\ IF Len(source) = 0
       THEN /\ perr' = "source file empty"
            /\ pc' = "returned"
       ELSE IF HeaderError(source[1]) # ""
       THEN /\ perr' = HeaderError(source[1])
            /\ pc' = "returned"
       ELSE /\ perr' = ""
            /\ pc' = "rows"
    /\ UNCHANGED <<remote, source, result, run, total, done, fail, updated, calls,
                   ncalls, uploads, failedBefore, okBefore, skipped, faults>>
    /\ UNCHANGED <<catVars, botVars, expVars>>

\* One iteration of "for rows.Next()" on a row that was read and is not empty
ProcessRow ==
    /\ pc = "rows"
    /\ i < Len(source)
    /\ Len(source[i + 1]) # 0
    /\ LET n == i + 1
           fields == source[1]
           row == source[n]
           ins == insertTargets(fields, row)
           upd == updateTargets(fields, row)
       IN  /\ i' = n
           /\ total' = total + 1
           /\ IF ins = {} /\ upd = {}
              THEN UNCHANGED <<table, pc, perr, done, fail, updated, calls, ncalls, faults>>
              ELSE \E ts \in Orders(ins), out \in InsertOutcomes(ins) :
                     LET st == InsertLoop(ts, n, fields, out,
                                   [table |-> table, calls |-> calls, ncalls |-> ncalls,
                                    success |-> TRUE, err |-> ""])
                     IN  /\ faults' = faults + Cardinality({c \in st.calls \ calls : ~c.ok})
                         /\ table' = st.table
                         /\ calls' = st.calls
                         /\ ncalls' = st.ncalls
                         /\ IF st.err # ""
                            THEN /\ perr' = st.err
                                 /\ pc' = "returned"
                                 /\ UNCHANGED <<done, fail, updated>>
                            ELSE /\ done' = IF st.success THEN done + 1 ELSE done
                                 /\ fail' = IF st.success THEN fail ELSE fail + 1
                                 /\ updated' = TRUE
                                 /\ UNCHANGED <<perr, pc>>
    /\ UNCHANGED <<remote, source, result, run, uploads, failedBefore, okBefore, skipped>>
    /\ UNCHANGED <<catVars, botVars, expVars>>

\* One iteration on a row whose rows.Columns() failed: logged, continue
SkipRow ==
    /\ pc = "rows"
    /\ i < Len(source)
    /\ faults < MaxFaults
    /\ i' = i + 1
    /\ faults' = faults + 1
    /\ skipped' = skipped \cup {i + 1}
    /\ pc' = OnReadError
    /\ UNCHANGED <<remote, source, table, result, run, total, done, fail, updated,
                   perr, calls, ncalls, uploads, failedBefore, okBefore>>
    /\ UNCHANGED <<catVars, botVars, expVars>>

\* The end of the row loop (no next row, or break on an empty row), then the
\* save of the result file and the return of process
ProcessReturn ==
    /\ pc = "rows"
    /\ \/ i >= Len(source)
       \/ i < Len(source) /\ Len(source[i + 1]) = 0
    /\ i' = IF i < Len(source) THEN i + 1 ELSE i
    /\ pc' = "returned"
    /\ IF updated
       THEN \E saved \in Attempts :
               IF saved
               THEN result' = table /\ perr' = "" /\ faults' = faults
               ELSE result' = result /\ perr' = "failed to save file"
                    /\ faults' = faults + 1
       ELSE UNCHANGED <<result, perr, faults>>
    /\ UNCHANGED <<remote, source, table, run, total, done, fail, updated, calls,
                   ncalls, uploads, failedBefore, okBefore, skipped>>
    /\ UNCHANGED <<catVars, botVars, expVars>>

\* export.upload: task.update, called whatever process returned
Update ==
    /\ pc = "returned"
    /\ pc' = "uploaded"
    /\ run' = run + 1
    /\ IF ~updated \/ result = NoFile
       THEN UNCHANGED <<remote, uploads, faults>>
       ELSE \E sent \in Attempts :
               IF sent
               THEN remote' = result /\ uploads' = uploads + 1 /\ faults' = faults
               ELSE faults' = faults + 1 /\ UNCHANGED <<remote, uploads>>
    /\ UNCHANGED <<source, table, result, i, total, done, fail, updated, perr, calls,
                   ncalls, failedBefore, okBefore, skipped>>
    /\ UNCHANGED <<catVars, botVars, expVars>>

\* runExport after exp.upload(): unless the flag -no-clean is given,
\* exp.clean() removes the export directory and with it the fetched file and
\* the result file
Clean ==
    /\ pc = "uploaded"
    /\ pc' = "idle"
    /\ \E flagNoClean \in BOOLEAN :
          IF flagNoClean
          THEN UNCHANGED <<source, result>>
          ELSE source' = NoFile /\ result' = NoFile
    /\ UNCHANGED <<remote, table, run, i, total, done, fail, updated, perr, calls, ncalls,
                   uploads, failedBefore, okBefore, skipped, faults>>
    /\ UNCHANGED <<catVars, botVars, expVars>>

Next ==
    \/ Fetch
    \/ OpenSource
    \/ ProcessRow
    \/ SkipRow
    \/ ProcessReturn
    \/ Update
    \/ Clean

Spec == Init /\ [][Next]_vars

----------------------------------------------------------------------------
(* The Bot Poller alone, and one batch of the Export Orchestrator alone *)

InitBot == SyncIdle /\ CatIdle /\ BotInit /\ ExportIdle

NextBot ==
    \/ PollOk
    \/ PollFails
    \/ HandleUpdate
    \/ CycleEnd
    \/ RunSync
    \/ SendReports
    \/ Sleep

SpecBot == InitBot /\ [][NextBot]_vars

InitExport == SyncIdle /\ CatIdle /\ BotIdle /\ ExportInit

NextExport ==
    \/ FetchItem
    \/ BeginProcess
    \/ ProcessItem
    \/ BeginUpload
    \/ UploadItem
    \/ EndExport

SpecExport == InitExport /\ [][NextExport]_vars

----------------------------------------------------------------------------
(* Properties of the Row Synchronizer *)

\* the cells of the pair (row n, target t) in a table
StatusCell(tbl, n, t) == CellAt(tbl[n], statusColumns(tbl[1])[t])

RecordIdCell(tbl, n, t) == CellAt(tbl[n], recordIdColumns(tbl[1])[t])

\* process is past the header validation of this run
InRows == pc \in {"rows", "returned"} /\ Len(source) > 0 /\ HeaderError(source[1]) = ""

DataRows == {n \in 2..Len(source) : Len(source[n]) # 0}

Called(n, t) == \E c \in calls : c.row = n /\ c.target = t

\* the header holds exactly one status and one record-id column per target
ExactlyOneEach(fields) ==
    \A t \in TargetIDs :
        /\ Cardinality(ColumnsOf(fields, targetStatusFieldName(t))) = 1
        /\ Cardinality(ColumnsOf(fields, targetRecordIdFieldName(t))) = 1

\* C1: a pair whose status is non-empty when the run starts gets no Insert
\* and keeps its status cell and its record-id cell, whatever happens to
\* the other targets of the row.
C1_SettledUntouched ==
    InRows =>
        \A n \in DataRows, t \in TargetIDs :
            StatusCell(source, n, t) # "" =>
                /\ ~Called(n, t)
                /\ StatusCell(table, n, t) = StatusCell(source, n, t)
                /\ RecordIdCell(table, n, t) = RecordIdCell(source, n, t)

\* C2: when process returns without error, every pair of a data row that
\* started with both cells empty holds "ok" and a record id, or an error
\* text and no record id.
C2_PendingInsertSettled ==
    (pc = "returned" /\ perr = "" /\ Len(source) > 0) =>
        \A n \in DataRows, t \in TargetIDs :
            (StatusCell(source, n, t) = "" /\ RecordIdCell(source, n, t) = "") =>
                \/ StatusCell(table, n, t) = "ok" /\ RecordIdCell(table, n, t) # ""
                \/ StatusCell(table, n, t) \notin {"", "ok"} /\ RecordIdCell(table, n, t) = ""

PendingRows ==
    {n \in DataRows : insertTargets(source[1], source[n]) # {}
                      \/ updateTargets(source[1], source[n]) # {}}

\* C3: total counts only rows with a pending target, and total = done + failed.
C3_TotalCountsPendingRows ==
    (pc = "returned" /\ perr = "" /\ Len(source) > 0) =>
        /\ total = done + fail
        /\ total <= Cardinality(PendingRows)

\* C8: Insert is called at most once per pair in a run, and a pair whose
\* Insert failed in an earlier run and whose error status is stored in the
\* fetched sheet is not inserted again.
C8_AtMostOneAttempt ==
    /\ ncalls = Cardinality({<<c.row, c.target>> : c \in calls})
    /\ (source # NoFile) =>
          \A c \in calls :
             ~(<<c.row, c.target>> \in failedBefore
                  /\ StatusCell(source, c.row, c.target) # "")

\* C8 witness: a later run has read past a row whose Insert failed in an
\* earlier run and whose error status was uploaded.
C8_Witness ==
    /\ pc = "returned"
    /\ perr = ""
    /\ \E p \in failedBefore :
          /\ i >= p[1]
          /\ StatusCell(source, p[1], p[2]) \notin {"", "ok", "429: rate limited"}

\* C9: a header without exactly one status and one record-id column per
\* target makes process return an invalid-source error before any Insert
\* and any cell write.
C9_HeaderRejected ==
    (pc \in {"rows", "returned"} /\ Len(source) > 0 /\ ~ExactlyOneEach(source[1])) =>
        /\ pc = "returned"
        /\ perr \in {"invalid source: invalid status columns number",
                     "invalid source: invalid record id columns number"}
        /\ ncalls = 0
        /\ table = source

\* C10: a run that ends without failure writes the result file, and uploads,
\* exactly when a cell of the table changed (read while the files of the run
\* are in the export directory).
C10_ResultIffMutated ==
    (pc \in {"returned", "uploaded", "idle"} /\ perr = "" /\ faults = 0 /\ table # NoFile
        /\ source # NoFile) =>
        /\ (result # NoFile) <=> (table # source)
        /\ (uploads > 0) => (table # source)

----------------------------------------------------------------------------
(* Properties of the Catalog Target *)

Links(index) == {k \in 1..Len(index) : index[k] # Placeholder}

\* C4: between Inserts, the index file holds the entries it held at
\* construction, then one entry per successful Insert in insertion order,
\* then the placeholder, once.
C4_IndexListsSuccesses ==
    cpc = "ready" =>
        catalogIndex = SubSeq(startIndex, 1, Len(startIndex) - 1) \o okItems \o <<Placeholder>>

\* C5: an Insert that failed after it created the item directory left the
\* index file as it was when it was called, and the item directory is gone.
C5_FailedInsertCompensated ==
    (cpc = "ready" /\ ret.kind = "err" /\ ret.created) =>
        /\ catalogIndex = preIndex
        /\ ret.id \notin DOMAIN catalogDir

\* C5 witness: an Insert failed at the rename, after an earlier Insert of
\* the instance had succeeded.
C5_Witness ==
    /\ cpc = "ready"
    /\ ret.kind = "err"
    /\ ret.created
    /\ ret.stage = "rename"
    /\ Len(okItems) > 0

\* C6: every item link of the index file on disk points to an item directory
\* whose index.html, and whose asset copy if it has one, was completely
\* written; also after a crash inside Insert.
C6_NoDanglingLink ==
    \A k \in Links(catalogIndex) :
        /\ catalogIndex[k].id \in DOMAIN catalogDir
        /\ catalogDir[catalogIndex[k].id].page = "done"
        /\ catalogDir[catalogIndex[k].id].asset # "none" =>
               catalogDir[catalogIndex[k].id].copied

\* C6 witness: the process crashed inside an Insert and left an item
\* directory that is not completely written, beside published items.
C6_Witness ==
    /\ cpc = "down"
    /\ nrestarts > 0
    /\ Len(okItems) > 0
    /\ \E id \in DOMAIN catalogDir : catalogDir[id].page # "done"

\* C7: the first successful Insert of an instance gets the largest numeric
\* entry of the catalog directory plus one (1 on an empty directory), and no
\* id that was in the directory at construction is allocated.
C7_IdAllocationResumes ==
    /\ Len(okItems) > 0 =>
           okItems[1].id = (IF startDir = {} THEN 1 ELSE Max(startDir) + 1)
    /\ \A k \in 1..Len(okItems) : okItems[k].id \notin startDir

\* C7 witness: on a catalog with the items 1, 2 and 5 the first inserted
\* item got the id 6.
C7_Witness ==
    /\ startDir = {1, 2, 5}
    /\ Len(okItems) > 0
    /\ okItems[1].id = 6

----------------------------------------------------------------------------
(* Properties of the Bot Poller *)

\* C11: an update dated before the start never puts its chat among the
\* requesting chats and never starts a run, even when its sender is allowed
\* and its text is the trigger phrase, in every cycle; the offset is still
\* set to its update id.
C11_StaleNeverTriggers ==
    /\ bpc = "handle" =>
           \A c \in reqs : \E k \in 1..uk :
               updates[k].chat = c /\ updates[k].date >= StartTime /\ updates[k].id # 0
    /\ bpc = "sync" => reqs # {}
    /\ (bpc = "handle" /\ uk > 0 /\ updates[uk].id # 0 /\ updates[uk].date < StartTime) =>
           offset = updates[uk].id

\* C11 witness: in a later cycle every update of the response is dated
\* before the start, sent by an allowed user with the trigger phrase; all
\* were handled, no chat requests a run and the offset is the last id.
C11_Witness ==
    /\ bpc = "handle"
    /\ Len(pollLog) >= 2
    /\ uk = Len(updates)
    /\ uk >= 1
    /\ \A k \in 1..uk : /\ updates[k].date < StartTime
                        /\ updates[k].from \in BotUsers
                        /\ updates[k].text = BotTriggerMessage
                        /\ updates[k].id # 0
    /\ reqs = {}
    /\ offset = updates[uk].id

\* C12: between two polls the offset is the highest update id received so far.
C12_OffsetIsHighestSeen ==
    bpc \in {"poll", "sync", "stopped"} => offset = (IF seen = {} THEN 0 ELSE Max(seen))

\* the failed polls since the last successful poll
RECURSIVE TrailingFailures(_)
TrailingFailures(log) ==
    IF Len(log) = 0 \/ log[Len(log)] THEN 0
    ELSE 1 + TrailingFailures(SubSeq(log, 1, Len(log) - 1))

\* C13 as claimed: the loop has ended exactly when the failed polls since
\* the last successful poll number BotMaxErrors.
C13_StopsAtMaxErrors ==
    botMaxErrors >= 1 => (bpc = "stopped" <=> TrailingFailures(pollLog) = botMaxErrors)

\* C13 amended: the loop has ended, with the error of the poll, exactly when
\* the failed polls since the last successful poll number BotMaxErrors + 1;
\* fewer failures in a row, or failures separated by a successful poll, do
\* not end it.
C13_StopsAboveMaxErrors ==
    /\ bpc = "stopped" <=> TrailingFailures(pollLog) = botMaxErrors + 1
    /\ TrailingFailures(pollLog) <= botMaxErrors + 1
    /\ bpc = "stopped" <=> retErr # ""

\* C13 witness: the loop ended after a successful poll and BotMaxErrors + 1
\* failed polls, with BotMaxErrors at least 1.
C13_Witness ==
    /\ bpc = "stopped"
    /\ botMaxErrors >= 1
    /\ \E k \in 1..Len(pollLog) : pollLog[k]
    /\ retErr # ""

----------------------------------------------------------------------------
(* Properties of the Export Orchestrator *)

\* the item's sheet holds a row with more cells than its header has columns
LongRow(t) == \E n \in 2..Len(sheets[t]) : RowPanics(sheets[t][1], sheets[t][n])

\* C15: an item whose fetch failed is never processed or uploaded, and when
\* the batch has ended every other item whose fetch succeeded was processed
\* and went through the upload, whatever happened to the other items.
C15_ItemsIndependent ==
    /\ \A t \in (DOMAIN processed) \cup uploaded : t \in fetched /\ t \in tasks
    /\ phase \in {"done", "panic"} =>
           \A t \in fetched : ~LongRow(t) =>
               /\ t \in DOMAIN processed
               /\ phase = "done"
               /\ t \in visited

\* C16: export.process returns one result per item left in the batch, each
\* with the name, the counts and the error of its item.
C16_OneResultPerItem ==
    phase \in {"upload", "done"} =>
        /\ Len(results) = Cardinality(tasks)
        /\ \A k \in 1..Len(results) :
               /\ results[k].name \in tasks
               /\ results[k] = taskResult(results[k].name, processed[results[k].name])

----------------------------------------------------------------------------
(* Properties of the Asset Cache and of the catalog's links and ids *)

\* C14: in one run the cache file of an asset name is created, by exclusive
\* create, by at most one Insert of any target, and an Insert that finds the
\* cache file present takes the asset from it, without lookup or download.
C14_CacheWriteOnce ==
    /\ \A n \in AssetNames : creates[n] <= 1
    /\ \A n \in AssetNames : creates[n] = 1 <=> cache[n] # "none"
    /\ assetLog.created => ~assetLog.present
    /\ assetLog.present =>
           /\ ~assetLog.lookup
           /\ ~assetLog.created
           /\ assetLog.from \in {"", "cache"}

\* C14 witness: the Telegram Target sent an asset from the cache file that
\* the Catalog Target created when it inserted an item in the same run.
C14_Witness ==
    /\ cpc = "ready"
    /\ assetLog.present
    /\ assetLog.from = "cache"
    /\ ret.stage = "telegram"
    /\ ret.kind = "ok"
    /\ Len(okItems) = 1
    /\ creates[assetLog.name] = 1

\* C17: the link of every item inserted into the catalog named C with the
\* id N is //C/N?item=N, and the audio field of its page is //C/N/<filename>.
C17_UrlConvention ==
    \A k \in 1..Len(okItems) :
        LET id == okItems[k].id
            N == ToString(id)
        IN  /\ okItems[k].href = "//" \o CatalogName \o "/" \o N \o "?item=" \o N
            /\ (id \in DOMAIN catalogDir /\ catalogDir[id].audioRef # "") =>
                   \E a \in AssetNames :
                       catalogDir[id].audioRef = "//" \o CatalogName \o "/" \o N \o "/" \o a

\* C20: the last-assigned id of an instance is the recovered maximum plus
\* the number of its successful Inserts, whatever Inserts failed in between,
\* and the k-th successful Insert returned the recovered maximum plus k.
C20_IdBookkeeping ==
    cpc # "down" =>
        LET base == IF startDir = {} THEN 0 ELSE Max(startDir)
        IN  /\ lastId = base + Len(okItems)
            /\ \A k \in 1..Len(okItems) : okItems[k].id = base + k

\* C20 witness: two Inserts of one instance succeeded on a catalog that held
\* items, and returned consecutive ids.
C20_Witness ==
    /\ cpc = "ready"
    /\ startDir # {}
    /\ Len(okItems) = 2
    /\ okItems[2].id = okItems[1].id + 1
    /\ lastId = okItems[2].id

----------------------------------------------------------------------------
(* Properties of the write-back of the Row Synchronizer *)

\* C18: after an attempted Insert of the pair (row, target), the pair's
\* status cell holds "ok" and its record-id cell the returned id when the
\* Insert succeeded; when it failed, the status cell holds the error's text
\* and the record-id cell is as it was read; the cells are those of the
\* row's physical number under the target's two header names.
C18_WriteBack ==
    InRows =>
        \A c \in calls :
            IF c.ok
            THEN /\ StatusCell(table, c.row, c.target) = "ok"
                 /\ RecordIdCell(table, c.row, c.target) = TargetInsert(c.target, "ok").id
            ELSE /\ StatusCell(table, c.row, c.target) = TargetInsert(c.target, "fail").err
                 /\ RecordIdCell(table, c.row, c.target) = RecordIdCell(source, c.row, c.target)

\* the rows read so far that hold a pending-insert pair
InsertRows == {n \in DataRows : n <= i /\ insertTargets(source[1], source[n]) # {}}

\* C19: when process returns without any failure, every pending-update pair
\* of a row it read has a non-empty status as its explicit result, and a row
\* whose only non-settled pairs are pending-update is not counted as done.
C19_UpdateNotIgnored ==
    (pc = "returned" /\ perr = "" /\ faults = 0 /\ InRows) =>
        /\ \A n \in DataRows : \A t \in updateTargets(source[1], source[n]) :
               n <= i => StatusCell(table, n, t) # ""
        /\ done <= Cardinality(InsertRows)

----------------------------------------------------------------------------
(* Properties of the Row Synchronizer over row read failures and over runs *)

\* the row loop gets to the physical row n: no row before it ended the loop
Reached(n) == \A m \in 2..(n - 1) : Len(source[m]) # 0 \/ m \in skipped

\* C21: a row whose read failed gets no Insert and no cell write; cells are
\* written only in the physical rows of the Inserts; and when process
\* returns without error, every pending-insert pair of every row the loop
\* got to, other than the rows whose read failed, was inserted.
C21_ReadFailureSkipsRow ==
    InRows =>
        /\ \A n \in skipped : ~(\E c \in calls : c.row = n) /\ table[n] = source[n]
        /\ \A n \in 2..Len(table) : table[n] # source[n] => \E c \in calls : c.row = n
        /\ (pc = "returned" /\ perr = "") =>
               \A n \in DataRows : (Reached(n) /\ n \notin skipped) =>
                   \A t \in insertTargets(source[1], source[n]) : Called(n, t)

\* C21 witness: the read of row 2 failed, row 3 was inserted and written at
\* row 3, and process returned without error.
C21_Witness ==
    /\ pc = "returned"
    /\ perr = ""
    /\ skipped = {2}
    /\ \E c \in calls : c.row = 3
    /\ table[3] # source[3]
    /\ table[2] = source[2]

\* C28: no pair whose Insert succeeded in an earlier run is inserted again.
C28_NoReinsert ==
    \A c \in calls : <<c.row, c.target>> \notin okBefore

----------------------------------------------------------------------------
(* Properties of the Bot Poller: authorization, runs, notices, report *)

\* the updates handled so far in this cycle that carry an update id, are not
\* dated before the start, come from an allowed user and hold exactly the
\* trigger phrase
PassedSoFar ==
    {k \in 1..uk : /\ updates[k].id # 0
                   /\ updates[k].date >= StartTime
                   /\ updates[k].from \in BotUsers
                   /\ updates[k].text = BotTriggerMessage}

\* C22: the requesting chats are exactly the chats of the updates that pass
\* the three tests, so an update failing a test adds no chat; and f is about
\* to run or has run in a cycle only if its response held such an update.
C22_OnlyAuthorizedTrigger ==
    /\ bpc = "handle" => reqs = {updates[k].chat : k \in PassedSoFar}
    /\ bpc \in {"sync", "report", "sleep"} => reqs = DOMAIN auth
    /\ (bpc \in {"sync", "report"} \/ runs > 0) => DOMAIN auth # {}

\* C22 witness: a response with an authorized update of chat 100 and an
\* update of chat 200 from a user outside the allow-list was handled: only
\* chat 100 requests the run.
C22_Witness ==
    /\ bpc = "handle"
    /\ uk = Len(updates)
    /\ uk = 2
    /\ \E k \in 1..uk : /\ updates[k].id # 0
                        /\ updates[k].from \notin BotUsers
                        /\ updates[k].text = BotTriggerMessage
                        /\ updates[k].chat = 200
    /\ \E k \in PassedSoFar : updates[k].chat = 100
    /\ reqs = {100}

\* the successful polls so far
Cycles == Cardinality({k \in 1..Len(pollLog) : pollLog[k]})

\* C23: f is called at most once in a cycle, however many chats request it,
\* so never more often than there were successful polls; and no poll is made
\* from the moment the run is due until its reports are sent.
C23_OneRunPerCycle ==
    /\ [](runs <= 1 /\ syncs <= Cycles)
    /\ [][(bpc \in {"sync", "report"}) => (pollLog' = pollLog /\ bpc' # "handle")]_vars

\* C23 witness: two chats, one of them with two authorized updates,
\* requested the run in one cycle; f ran once and the reports are out.
C23_Witness ==
    /\ bpc = "sleep"
    /\ Cardinality(reqs) = 2
    /\ runs = 1
    /\ syncs = 1
    /\ Len(pollLog) = 1

\* C24: once the notices are out every chat with an authorized update in the
\* cycle has exactly one "starting sync..." message, sent before f is called,
\* and no other chat has one; once the reports are out the same chats have
\* exactly one report each, whether f returned an error or not; before f
\* returned no report is out.
C24_OneNoticeOneReport ==
    /\ bpc \in {"sync", "report", "sleep"} => notices = [c \in DOMAIN auth |-> 1]
    /\ bpc \in {"poll", "handle"} => notices = NoChats
    /\ bpc = "sleep" => reports = [c \in DOMAIN auth |-> 1]
    /\ bpc # "sleep" => reports = NoChats
    /\ bpc = "sync" => runs = 0
    /\ (bpc = "sleep" /\ DOMAIN auth # {}) => runs = 1

\* C24 witness: chat 100 sent two authorized updates, f returned an error,
\* and chat 100 has one notice and one report.
C24_Witness ==
    /\ bpc = "sleep"
    /\ 100 \in DOMAIN auth
    /\ auth[100] = 2
    /\ runRes.err # "" /\ runRes # NoRun
    /\ notices[100] = 1
    /\ reports[100] = 1

\* the lines of the report
Lines == {report[k] : k \in 1..Len(report)}

\* C25: when f returned results, the report holds for every result its
\* name and its counts and, when the result carries an error, the text of
\* that error.
C25_ReportContent ==
    (bpc \in {"report", "sleep"} /\ runRes # NoRun /\ runRes.err = "") =>
        \A k \in 1..Len(runRes.results) :
            LET res == runRes.results[k]
            IN  /\ res.name \in Lines
                /\ ("records: total " \o Itoa(res.total) \o ", done " \o Itoa(res.done)
                        \o ", failed " \o Itoa(res.failed)) \in Lines
                /\ res.err # "" => ("error: " \o res.err) \in Lines

----------------------------------------------------------------------------
(* Properties of the Asset Cache's content and of the index buffer *)

\* C26: a cache file an Insert found present holds the complete asset, and
\* an Insert that returned an error after creating the cache file left no
\* empty or partial cache file.
C26_CacheComplete ==
    /\ (assetLog.name # "" /\ assetLog.present) => cache[assetLog.name] = "full"
    /\ (cpc = "ready" /\ ret.kind = "err" /\ assetLog.created) =>
           cache[assetLog.name] \in {"none", "full"}

\* C27: between two Inserts the index buffer of the target equals the
\* catalog index file.
C27_BufferIsIndexFile ==
    cpc = "ready" => indexBuf = catalogIndex

----------------------------------------------------------------------------
(* Properties of the compensating cleanup and of the row passed to Insert *)

\* C29: every item directory that was in the catalog directory when Insert
\* was called, published in the index or not, is still there during the
\* Insert and after its return.
C29_CleanupKeepsOlderDirs ==
    cpc # "down" => preDirs \subseteq DOMAIN catalogDir

\* C30: during a Catalog Target Insert and after the return of an Insert of
\* either target, the map the Row Synchronizer passed holds the values it
\* held at the call.
C30_RowUnchanged ==
    /\ cpc \notin {"down", "ready"} => cur.maps["rec"] = cur.arg
    /\ ret.kept

\* C30 witness: a Catalog Target Insert of a row with the audio file a.mp3
\* rewrote text and audio, rendered the page with the rewritten reference
\* and returned the id, and the map it was passed is as it was.
C30_Witness ==
    /\ cpc = "ready"
    /\ ret.kind = "ok"
    /\ ret.stage = ""
    /\ ret.kept
    /\ ret.id \in DOMAIN catalogDir
    /\ catalogDir[ret.id].audioRef = AudioRef(CatalogName, ret.id, "a.mp3")

----------------------------------------------------------------------------
(* Properties of the row materialization and of the cell references *)

\* C31: no item's process ends in a run-time failure, whatever the number
\* of cells of its rows.
C31_NoRuntimeFailure ==
    phase # "panic"

\* C32: once the header of the fetched sheet is accepted, the cell name
\* built from the column index of each reserved column addresses that same
\* column, for every target.
C32_CellNameAddressesColumn ==
    (pc \in {"rows", "returned"} /\ source # NoFile /\ HeaderError(source[1]) = "") =>
        \A t \in TargetIDs :
            /\ CellColumn(columnLetter(statusColumns(source[1])[t]))
                   = statusColumns(source[1])[t]
            /\ CellColumn(columnLetter(recordIdColumns(source[1])[t]))
                   = recordIdColumns(source[1])[t]

====
